---- MODULE Spec2Model ----
(***************************************************************************)
(* A model of src/reddit_scout/models.py: the pydantic data models Post,   *)
(* RedditConfig, MonitoringConfig, NotificationConfig, Config,             *)
(* NotificationRecord and ServiceStatus.                                   *)
(*                                                                         *)
(* Python values are modelled as follows.                                  *)
(*   str            a sequence of one-character strings                    *)
(*   int            an integer (Python ints do not overflow)               *)
(*   float          a decimal [neg, int, frac]: sign, integer part and the *)
(*                  fraction digits without trailing zeros                 *)
(*   Optional[str]  NoneValue or StrValue(s)                               *)
(*   list[str]      a reference into heap, whose cell is the sequence      *)
(*   a keyword argument  <<>> when omitted, <<v>> when passed              *)
(* No class sets model_config, so pydantic's defaults apply: instances are *)
(* not frozen and assignments are not validated.                           *)
(***************************************************************************)
EXTENDS Integers, Sequences, FiniteSets, TLC

VARIABLES
    status,      \* the ServiceStatus instances: slot -> instance or NoInstance
    statusKw,    \* history: the keyword arguments each instance was built from
    heap,        \* the list objects: heap[ref] is the list's contents
    calls,       \* history: the mutator calls on ServiceStatus instances
    record,      \* the NotificationRecord instance, or NoInstance
    recordKw,    \* history: the keyword arguments it was built from
    post,        \* the Post instance, or NoInstance
    postKw,      \* history: the keyword arguments of the last Post(...) call
    postCall,    \* history: the last operation on the Post, with its result
    reddit,      \* the RedditConfig instance, or NoInstance
    monitoring,  \* the MonitoringConfig instance, or NoInstance
    notifConfig, \* the NotificationConfig instance, or NoInstance
    config,      \* the Config instance, or NoInstance
    configKw,    \* history: the keyword arguments each sub-config was last called with
    lastOp,      \* history: the name of the last operation performed
    raised       \* what the last operation raised: NoError or an exception name

statusVars == <<status, statusKw, heap, calls>>
recordVars == <<record, recordKw>>
postVars == <<post, postKw, postCall>>
configVars == <<reddit, monitoring, notifConfig, config, configKw>>
vars == <<statusVars, recordVars, postVars, configVars, lastOp, raised>>

(***************************************************************************)
(* Bounds of the model.                                                    *)
(***************************************************************************)
MaxCalls == 2    \* mutator calls recorded in one behaviour

(***************************************************************************)
(* Python values.                                                          *)
(***************************************************************************)
Omitted == <<>>
Arg(v) == <<v>>
IsGiven(a) == Len(a) = 1
NoneValue == [t |-> "none"]
StrValue(s) == [t |-> "str", s |-> s]
NoInstance == [class |-> "None"]
NoError == "NoError"
ValidationError == "ValidationError"

(***************************************************************************)
(* Field(default=..., ge=..., gt=..., le=...).                             *)
(***************************************************************************)
\* the value a field takes: the argument when passed, the default otherwise
FieldValue(a, default) == IF IsGiven(a) THEN a[1] ELSE default
\* Field(...): a required field is an error when its argument is omitted
MissingRequired(a) == ~IsGiven(a)
\* Field(ge = bound) on an int field
ViolatesGe(a, bound) == IsGiven(a) /\ ~(a[1] >= bound)
\* Field(gt = bound) on an int field
ViolatesGt(a, bound) == IsGiven(a) /\ ~(a[1] > bound)

(***************************************************************************)
(* list objects                                                            *)
(***************************************************************************)
\* a bug: one list object made once and shared by every default
SharedDefaultList(h) == 1
\* default_factory=list: every call of list() makes a new, empty list object
DefaultFactoryList(h) == Len(h) + 1
\* pydantic validates a list[str] argument into a new list object
ValidatedList(h) == Len(h) + 1
\* the heap once the list at ref exists (a new object starts as contents)
Alloc(h, ref, contents) == IF ref > Len(h) THEN Append(h, contents) ELSE h

(***************************************************************************)
(* ServiceStatus                                                           *)
(***************************************************************************)
\* the two variables of the caller that hold ServiceStatus instances
StatusIds == {"s", "t"}

\* the keyword arguments ServiceStatus(...) is called with
ServiceStatusKwargs ==
    { [is_running |-> Omitted, last_check_at |-> Omitted, next_check_at |-> Omitted,
       monitored_subreddits |-> Omitted, total_posts_checked |-> Omitted,
       total_notifications_sent |-> Omitted, errors |-> Omitted, started_at |-> Omitted],
      [is_running |-> Arg(TRUE), last_check_at |-> Arg(StrValue(<<"t", "1">>)),
       next_check_at |-> Arg(NoneValue), monitored_subreddits |-> Arg(<< <<"p", "y">> >>),
       total_posts_checked |-> Arg(1), total_notifications_sent |-> Arg(2),
       errors |-> Arg(<< <<"e">> >>), started_at |-> Arg(StrValue(<<"t", "0">>))],
      [is_running |-> Omitted, last_check_at |-> Omitted, next_check_at |-> Omitted,
       monitored_subreddits |-> Omitted, total_posts_checked |-> Arg(-1),
       total_notifications_sent |-> Omitted, errors |-> Omitted, started_at |-> Omitted],
      [is_running |-> Omitted, last_check_at |-> Omitted, next_check_at |-> Omitted,
       monitored_subreddits |-> Omitted, total_posts_checked |-> Arg(0),
       total_notifications_sent |-> Omitted, errors |-> Arg(<< <<"e">>, <<"e">> >>),
       started_at |-> Omitted],
      [is_running |-> Omitted, last_check_at |-> Omitted, next_check_at |-> Omitted,
       monitored_subreddits |-> Omitted, total_posts_checked |-> Omitted,
       total_notifications_sent |-> Arg(-2), errors |-> Omitted, started_at |-> Omitted] }

NoKwargs == CHOOSE kw \in ServiceStatusKwargs : \A f \in DOMAIN kw : kw[f] = Omitted

\* the fields whose Field(ge=0) constraint the arguments violate
ServiceStatusErrors(kw) ==
    {f \in {"total_posts_checked"} : ViolatesGe(kw.total_posts_checked, 0)}
        \cup {f \in {"total_notifications_sent"} :
                ViolatesGe(kw.total_notifications_sent, 0)}

\* the reference of the instance's monitored_subreddits list
SubredditsRef(kw, h) ==
    IF IsGiven(kw.monitored_subreddits) THEN ValidatedList(h) ELSE DefaultFactoryList(h)

\* the reference of the instance's errors list
ErrorsRef(kw, h) ==
    IF IsGiven(kw.errors) THEN ValidatedList(h) ELSE DefaultFactoryList(h)

\* the heap after the instance's two lists were made
ServiceStatusHeap(kw, h) ==
    LET h1 == Alloc(h, SubredditsRef(kw, h), FieldValue(kw.monitored_subreddits, <<>>))
    IN  Alloc(h1, ErrorsRef(kw, h1), FieldValue(kw.errors, <<>>))

\* the instance ServiceStatus(**kw) makes, its fields filled from the defaults
ServiceStatusNew(kw, h) ==
    LET h1 == Alloc(h, SubredditsRef(kw, h), FieldValue(kw.monitored_subreddits, <<>>))
    IN  [class |-> "ServiceStatus",
         is_running |-> FieldValue(kw.is_running, FALSE),
         last_check_at |-> FieldValue(kw.last_check_at, NoneValue),
         next_check_at |-> FieldValue(kw.next_check_at, NoneValue),
         monitored_subreddits |-> SubredditsRef(kw, h),
         total_posts_checked |-> FieldValue(kw.total_posts_checked, 0),
         total_notifications_sent |-> FieldValue(kw.total_notifications_sent, 0),
         errors |-> ErrorsRef(kw, h1),
         started_at |-> FieldValue(kw.started_at, NoneValue)]

\* ServiceStatus(**kw), bound to slot i
ConstructServiceStatus(i, kw) ==
    /\ status[i] = NoInstance
    /\ IF ServiceStatusErrors(kw) # {}
       THEN /\ raised' = ValidationError
            /\ UNCHANGED <<status, statusKw, heap>>
       ELSE /\ raised' = NoError
            /\ status' = [status EXCEPT ![i] = ServiceStatusNew(kw, heap)]
            /\ statusKw' = [statusKw EXCEPT ![i] = kw]
            /\ heap' = ServiceStatusHeap(kw, heap)
    /\ lastOp' = "ServiceStatus"
    /\ UNCHANGED <<calls, recordVars, postVars, configVars>>

\* what a reader of the instances sees: each list field by its contents
View(st, h) ==
    [i \in StatusIds |->
        IF st[i] = NoInstance THEN NoInstance
        ELSE [st[i] EXCEPT !.monitored_subreddits = h[@], !.errors = h[@]]]

\* the errors argument of add_error
ErrorArgs == { <<"e">>, <<"f">> }
\* the count argument of the increment operations, omitted or passed
CountArgs == { Omitted, Arg(-1), Arg(0), Arg(2) }

\* count: int = 1
CountValue(a) == FieldValue(a, 1)

\* a bug: a message already in the list is not added again
ErrorsAppendOnce(errors, error) ==
    IF \E k \in DOMAIN errors : errors[k] = error THEN errors ELSE Append(errors, error)
\* self.errors.append(error)
ErrorsAppend(errors, error) == Append(errors, error)

\* a bug: = written for +=
PostsCheckedSet(total, count) == count
\* self.total_posts_checked += count
PostsCheckedAdd(total, count) == total + count

\* self.total_notifications_sent += count
NotificationsSentAdd(total, count) == total + count

\* ServiceStatus.add_error(error) on instance i
AddError(i, error) ==
    /\ status[i] # NoInstance
    /\ Len(calls) < MaxCalls
    /\ heap' = [heap EXCEPT ![status[i].errors] = ErrorsAppend(@, error)]
    /\ calls' = Append(calls, [op |-> "add_error", inst |-> i, error |-> error,
                               pre |-> View(status, heap), post |-> View(status, heap')])
    /\ lastOp' = "add_error"
    /\ raised' = NoError
    /\ UNCHANGED <<status, statusKw, recordVars, postVars, configVars>>

\* ServiceStatus.increment_posts_checked(count) on instance i
IncrementPostsChecked(i, a) ==
    /\ status[i] # NoInstance
    /\ Len(calls) < MaxCalls
    /\ status' = [status EXCEPT ![i].total_posts_checked =
                                    PostsCheckedAdd(@, CountValue(a))]
    /\ calls' = Append(calls, [op |-> "increment_posts_checked", inst |-> i, count |-> a,
                               pre |-> View(status, heap), post |-> View(status', heap)])
    /\ lastOp' = "increment_posts_checked"
    /\ raised' = NoError
    /\ UNCHANGED <<statusKw, heap, recordVars, postVars, configVars>>

\* ServiceStatus.increment_notifications_sent(count) on instance i
IncrementNotificationsSent(i, a) ==
    /\ status[i] # NoInstance
    /\ Len(calls) < MaxCalls
    /\ status' = [status EXCEPT ![i].total_notifications_sent =
                                    NotificationsSentAdd(@, CountValue(a))]
    /\ calls' = Append(calls, [op |-> "increment_notifications_sent", inst |-> i,
                               count |-> a,
                               pre |-> View(status, heap), post |-> View(status', heap)])
    /\ lastOp' = "increment_notifications_sent"
    /\ raised' = NoError
    /\ UNCHANGED <<statusKw, heap, recordVars, postVars, configVars>>

(***************************************************************************)
(* The specification of ServiceStatus.                                     *)
(***************************************************************************)
Init ==
    /\ status = [i \in StatusIds |-> NoInstance]
    /\ statusKw = [i \in StatusIds |-> NoKwargs]
    /\ heap = <<>>
    /\ calls = <<>>
    /\ record = NoInstance
    /\ recordKw = NoInstance
    /\ post = NoInstance
    /\ postKw = NoInstance
    /\ postCall = NoInstance
    /\ reddit = NoInstance
    /\ monitoring = NoInstance
    /\ notifConfig = NoInstance
    /\ config = NoInstance
    /\ configKw = [reddit |-> NoInstance, monitoring |-> NoInstance,
                   notification |-> NoInstance]
    /\ lastOp = "start"
    /\ raised = NoError

StatusNext ==
    \/ \E i \in StatusIds, kw \in ServiceStatusKwargs : ConstructServiceStatus(i, kw)
    \/ \E i \in StatusIds, error \in ErrorArgs : AddError(i, error)
    \/ \E i \in StatusIds, a \in CountArgs : IncrementPostsChecked(i, a)
    \/ \E i \in StatusIds, a \in CountArgs : IncrementNotificationsSent(i, a)

SpecStatus == Init /\ [][StatusNext]_vars

(***************************************************************************)
(* Properties of ServiceStatus, stated for SpecStatus.                  *)
(***************************************************************************)
Live(i) == status[i] # NoInstance

\* the calls of operation op on instance i, in call order
CallsOf(op, i) == SelectSeq(calls, LAMBDA c : c.op = op /\ c.inst = i)

\* what a count argument adds: the number passed, 1 when omitted
Amount(a) == IF a = Omitted THEN 1 ELSE a[1]

RECURSIVE SumAmounts(_)
SumAmounts(cs) == IF cs = <<>> THEN 0 ELSE Amount(Head(cs).count) + SumAmounts(Tail(cs))

RECURSIVE Messages(_)
Messages(cs) == IF cs = <<>> THEN <<>> ELSE <<Head(cs).error>> \o Messages(Tail(cs))

\* C2: total_posts_checked and total_notifications_sent are >= 0 in every
\* reachable state, and no increment call, whatever integer it is passed,
\* leaves its counter lower than it found it.
C2_CountersNonNegativeMonotone ==
    /\ \A i \in StatusIds :
          Live(i) => /\ status[i].total_posts_checked >= 0
                     /\ status[i].total_notifications_sent >= 0
    /\ \A k \in DOMAIN calls :
          LET c == calls[k] IN
          /\ c.post[c.inst].total_posts_checked >= c.pre[c.inst].total_posts_checked
          /\ c.post[c.inst].total_notifications_sent
                >= c.pre[c.inst].total_notifications_sent

\* C6: each counter equals the value it was constructed with plus the sum of
\* the arguments passed to its own increment operation (an omitted argument
\* counting as 1), and two calls in sequence of increment_posts_checked(n),
\* n >= 0, leave total_posts_checked at its prior value + 2n.
C6_ExactAccumulation ==
    /\ \A i \in StatusIds :
          Live(i) =>
             /\ status[i].total_posts_checked
                   = (IF statusKw[i].total_posts_checked = Omitted THEN 0
                      ELSE statusKw[i].total_posts_checked[1])
                     + SumAmounts(CallsOf("increment_posts_checked", i))
             /\ status[i].total_notifications_sent
                   = (IF statusKw[i].total_notifications_sent = Omitted THEN 0
                      ELSE statusKw[i].total_notifications_sent[1])
                     + SumAmounts(CallsOf("increment_notifications_sent", i))
    /\ \A k \in 1..(Len(calls) - 1) :
          LET c == calls[k]  d == calls[k + 1] IN
          (/\ c.op = "increment_posts_checked" /\ d.op = "increment_posts_checked"
           /\ c.inst = d.inst /\ c.count = d.count
           /\ c.count # Omitted /\ c.count[1] >= 0)
             => d.post[d.inst].total_posts_checked
                   = c.pre[c.inst].total_posts_checked + 2 * c.count[1]

\* increment_posts_checked(2) was called twice in sequence on an instance
\* constructed with total_posts_checked = 1, which now holds 5
C6_Witness ==
    /\ \E k \in 1..(Len(calls) - 1) :
          /\ calls[k].op = "increment_posts_checked"
          /\ calls[k + 1].op = "increment_posts_checked"
          /\ calls[k].inst = calls[k + 1].inst
          /\ calls[k].count = Arg(2) /\ calls[k + 1].count = Arg(2)
          /\ calls[k + 1].post[calls[k].inst].total_posts_checked
                = calls[k].pre[calls[k].inst].total_posts_checked + 4
          /\ calls[k].pre[calls[k].inst].total_posts_checked = 1

\* C7: the errors list of an instance is the list it was constructed with
\* followed by the messages of the add_error calls on it, in call order and
\* repeats included; each call lengthens the list by exactly 1, puts its
\* message last and leaves the earlier elements as they were.
C7_AddErrorAppends ==
    /\ \A i \in StatusIds :
          Live(i) =>
             heap[status[i].errors]
                = (IF statusKw[i].errors = Omitted THEN <<>> ELSE statusKw[i].errors[1])
                  \o Messages(CallsOf("add_error", i))
    /\ \A k \in DOMAIN calls :
          LET c == calls[k] IN
          c.op = "add_error" =>
             LET before == c.pre[c.inst].errors
                 after == c.post[c.inst].errors
             IN  /\ Len(after) = Len(before) + 1
                 /\ after[Len(after)] = c.error
                 /\ \A n \in DOMAIN before : after[n] = before[n]

\* add_error was called twice with the same message on an instance whose
\* list already held that message
C7_Witness ==
    \E i \in StatusIds :
       /\ Live(i)
       /\ Len(CallsOf("add_error", i)) = 2
       /\ heap[status[i].errors] = << <<"e">>, <<"e">>, <<"e">>, <<"e">> >>

\* the fields of ServiceStatus
StatusFields ==
    {"is_running", "last_check_at", "next_check_at", "monitored_subreddits",
     "total_posts_checked", "total_notifications_sent", "errors", "started_at"}

\* the one field each mutator writes
OwnField(op) ==
    CASE op = "add_error" -> "errors"
      [] op = "increment_posts_checked" -> "total_posts_checked"
      [] op = "increment_notifications_sent" -> "total_notifications_sent"

\* C10: a mutator changes only its own field of the instance it is called on;
\* every other field of that instance and every field of every other
\* instance, one also built from the defaults included, is as before.
C10_MutatorFrame ==
    \A k \in DOMAIN calls :
       LET c == calls[k] IN
       /\ \A j \in StatusIds \ {c.inst} : c.post[j] = c.pre[j]
       /\ \A f \in StatusFields \ {OwnField(c.op)} :
             c.post[c.inst][f] = c.pre[c.inst][f]

\* add_error changed the errors list of one of two instances that were both
\* built from the defaults
C10_Witness ==
    \E k \in DOMAIN calls :
       LET c == calls[k] IN
       /\ c.op = "add_error"
       /\ \A j \in StatusIds : c.pre[j] # NoInstance /\ statusKw[j] = NoKwargs
       /\ c.post[c.inst].errors # c.pre[c.inst].errors
       /\ \E j \in StatusIds \ {c.inst} : c.post[j].errors = <<>>

(***************************************************************************)
(* float: comparison of decimals [neg, int, frac]                          *)
(***************************************************************************)
Float(neg, int, frac) == [neg |-> neg, int |-> int, frac |-> frac]
Zero == Float(FALSE, 0, <<>>)
One == Float(FALSE, 1, <<>>)

RECURSIVE FracLe(_, _)
FracLe(f, g) ==
    IF f = <<>> THEN TRUE
    ELSE IF g = <<>> THEN FALSE
    ELSE IF Head(f) # Head(g) THEN Head(f) < Head(g)
    ELSE FracLe(Tail(f), Tail(g))

MagnitudeLe(a, b) == a.int < b.int \/ (a.int = b.int /\ FracLe(a.frac, b.frac))
IsZero(a) == a.int = 0 /\ a.frac = <<>>

\* a <= b on floats (-0.0 equals 0.0)
FloatLe(a, b) ==
    IF a.neg /\ b.neg THEN MagnitudeLe(b, a)
    ELSE IF a.neg THEN TRUE
    ELSE IF b.neg THEN IsZero(a) /\ IsZero(b)
    ELSE MagnitudeLe(a, b)

\* Field(ge = lo, le = hi) on a float field
ViolatesRange(a, lo, hi) == IsGiven(a) /\ ~(FloatLe(lo, a[1]) /\ FloatLe(a[1], hi))

(***************************************************************************)
(* Post                                                                    *)
(***************************************************************************)
PostFields ==
    <<"post_id", "subreddit", "title", "url", "upvotes", "num_comments",
      "upvote_ratio", "created_utc", "permalink">>

\* the keyword arguments Post(...) is called with
PostKwargs ==
    [post_id : {Arg(<<>>), Arg(<<"a", "\"">>)},
     subreddit : {Arg(<<"p">>)},
     title : {Arg(<<"T">>), Arg(<<"\\", "\n">>)},
     url : {Arg(<<"u">>)},
     upvotes : {Arg(-1), Arg(0), Arg(150)},
     num_comments : {Arg(-1), Arg(0), Arg(20)},
     upvote_ratio : {Arg(Float(TRUE, 0, <<5>>)), Arg(Float(TRUE, 0, <<>>)),
                     Arg(Float(FALSE, 0, <<9, 5>>)), Arg(One),
                     Arg(Float(FALSE, 1, <<5>>))},
     created_utc : {Arg(<<"2", "0", "2", "4">>)},
     permalink : {Arg(<<"/", "r">>)}]
    \cup
    [post_id : {Arg(<<"a">>)}, subreddit : {Arg(<<"p">>)}, title : {Arg(<<"T">>)},
     url : {Arg(<<"u">>)}, upvotes : {Arg(150)}, num_comments : {Arg(20)},
     upvote_ratio : {Arg(One)}, created_utc : {Arg(<<"2", "0", "2", "4">>)},
     permalink : {Omitted}]

\* validate_upvotes: if v < 0: raise ValueError
ValidateUpvotesRaises(v) == v < 0

\* validate_upvote_ratio: if not 0.0 <= v <= 1.0: raise ValueError
ValidateUpvoteRatioRaises(v) == ~(FloatLe(Zero, v) /\ FloatLe(v, One))

\* a bug: upvotes declared without ge=0 and without its validator
PostErrorsUpvotesUnchecked(kw) ==
    {PostFields[n] : n \in {n \in DOMAIN PostFields : MissingRequired(kw[PostFields[n]])}}
        \cup {f \in {"num_comments"} : ViolatesGe(kw.num_comments, 0)}
        \cup {f \in {"upvote_ratio"} : ViolatesRange(kw.upvote_ratio, Zero, One)}

\* a bug: post_id declared with min_length=1
PostErrorsNonEmptyId(kw) ==
    {PostFields[n] : n \in {n \in DOMAIN PostFields : MissingRequired(kw[PostFields[n]])}}
        \cup {f \in {"post_id"} : IsGiven(kw.post_id) /\ kw.post_id[1] = <<>>}
        \cup {f \in {"upvotes"} : ViolatesGe(kw.upvotes, 0)}
        \cup {f \in {"num_comments"} : ViolatesGe(kw.num_comments, 0)}
        \cup {f \in {"upvote_ratio"} : ViolatesRange(kw.upvote_ratio, Zero, One)}

\* the fields of Post(**kw) that fail validation: a required field that is
\* missing, a Field constraint that is violated, or, for a value that passed
\* its constraints, a field_validator that raises
PostErrors(kw) ==
    {PostFields[n] : n \in {n \in DOMAIN PostFields : MissingRequired(kw[PostFields[n]])}}
        \cup {f \in {"upvotes"} :
                \/ ViolatesGe(kw.upvotes, 0)
                \/ IsGiven(kw.upvotes) /\ ValidateUpvotesRaises(kw.upvotes[1])}
        \cup {f \in {"num_comments"} : ViolatesGe(kw.num_comments, 0)}
        \cup {f \in {"upvote_ratio"} :
                \/ ViolatesRange(kw.upvote_ratio, Zero, One)
                \/ IsGiven(kw.upvote_ratio)
                     /\ ValidateUpvoteRatioRaises(kw.upvote_ratio[1])}

\* the instance Post(**kw) makes
PostNew(kw) ==
    [class |-> "Post", post_id |-> kw.post_id[1], subreddit |-> kw.subreddit[1],
     title |-> kw.title[1], url |-> kw.url[1], upvotes |-> kw.upvotes[1],
     num_comments |-> kw.num_comments[1], upvote_ratio |-> kw.upvote_ratio[1],
     created_utc |-> kw.created_utc[1], permalink |-> kw.permalink[1]]

\* p = Post(**kw): p stays unbound when the constructor raises
ConstructPost(kw) ==
    /\ post = NoInstance
    /\ postKw' = kw
    /\ postCall' = NoInstance
    /\ IF PostErrors(kw) # {}
       THEN raised' = ValidationError /\ post' = post
       ELSE raised' = NoError /\ post' = PostNew(kw)
    /\ lastOp' = "Post"
    /\ UNCHANGED <<statusVars, recordVars, configVars>>

(***************************************************************************)
(* model_dump and model_dump_json                                          *)
(*                                                                         *)
(* A dict is a sequence of <<key, value>> pairs in insertion order, each   *)
(* value tagged with its Python type.  A JSON text is a sequence of        *)
(* characters.  Floats are written in positional notation, which is what   *)
(* the serialiser emits for the magnitudes modelled here.                  *)
(***************************************************************************)
IntValue(n) == [t |-> "int", i |-> n]
FloatValue(v) == [t |-> "float", f |-> v]

\* Post.to_dict: self.model_dump()
ModelDump(p) ==
    << <<"post_id", StrValue(p.post_id)>>, <<"subreddit", StrValue(p.subreddit)>>,
       <<"title", StrValue(p.title)>>, <<"url", StrValue(p.url)>>,
       <<"upvotes", IntValue(p.upvotes)>>, <<"num_comments", IntValue(p.num_comments)>>,
       <<"upvote_ratio", FloatValue(p.upvote_ratio)>>,
       <<"created_utc", StrValue(p.created_utc)>>, <<"permalink", StrValue(p.permalink)>> >>

\* the characters of each field name
KeyChars(f) ==
    CASE f = "post_id" -> <<"p", "o", "s", "t", "_", "i", "d">>
      [] f = "subreddit" -> <<"s", "u", "b", "r", "e", "d", "d", "i", "t">>
      [] f = "title" -> <<"t", "i", "t", "l", "e">>
      [] f = "url" -> <<"u", "r", "l">>
      [] f = "upvotes" -> <<"u", "p", "v", "o", "t", "e", "s">>
      [] f = "num_comments" -> <<"n", "u", "m", "_", "c", "o", "m", "m", "e", "n", "t", "s">>
      [] f = "upvote_ratio" -> <<"u", "p", "v", "o", "t", "e", "_", "r", "a", "t", "i", "o">>
      [] f = "created_utc" -> <<"c", "r", "e", "a", "t", "e", "d", "_", "u", "t", "c">>
      [] f = "permalink" -> <<"p", "e", "r", "m", "a", "l", "i", "n", "k">>

DigitChars == <<"0", "1", "2", "3", "4", "5", "6", "7", "8", "9">>
DigitChar(d) == DigitChars[d + 1]
IsDigitChar(c) == \E n \in DOMAIN DigitChars : DigitChars[n] = c
DigitOf(c) == (CHOOSE n \in DOMAIN DigitChars : DigitChars[n] = c) - 1

RECURSIVE NatDigits(_)
NatDigits(n) == IF n < 10 THEN <<DigitChar(n)>> ELSE NatDigits(n \div 10) \o <<DigitChar(n % 10)>>

RECURSIVE FracDigits(_)
FracDigits(f) == IF f = <<>> THEN <<>> ELSE <<DigitChar(Head(f))>> \o FracDigits(Tail(f))

\* a bug: the text is escaped a second time
EscapeTwice(c) ==
    IF c = "\"" THEN <<"\\", "\\", "\\", "\"">>
    ELSE IF c = "\\" THEN <<"\\", "\\", "\\", "\\">>
    ELSE IF c = "\n" THEN <<"\\", "\\", "n">>
    ELSE <<c>>

\* JSON string escaping of one character
EscapeChar(c) ==
    IF c = "\"" THEN <<"\\", "\"">>
    ELSE IF c = "\\" THEN <<"\\", "\\">>
    ELSE IF c = "\n" THEN <<"\\", "n">>
    ELSE <<c>>

RECURSIVE EscapeAll(_)
EscapeAll(str) == IF str = <<>> THEN <<>> ELSE EscapeChar(Head(str)) \o EscapeAll(Tail(str))

JsonString(str) == <<"\"">> \o EscapeAll(str) \o <<"\"">>
JsonInt(n) == IF n < 0 THEN <<"-">> \o NatDigits(-n) ELSE NatDigits(n)
JsonFloat(v) ==
    (IF v.neg THEN <<"-">> ELSE <<>>) \o NatDigits(v.int) \o <<".">>
        \o (IF v.frac = <<>> THEN <<"0">> ELSE FracDigits(v.frac))

JsonValue(x) ==
    CASE x.t = "str" -> JsonString(x.s)
      [] x.t = "int" -> JsonInt(x.i)
      [] x.t = "float" -> JsonFloat(x.f)

RECURSIVE JsonMembers(_)
JsonMembers(d) ==
    IF d = <<>> THEN <<>>
    ELSE JsonString(KeyChars(Head(d)[1])) \o <<":">> \o JsonValue(Head(d)[2])
            \o (IF Len(d) > 1 THEN <<",">> ELSE <<>>) \o JsonMembers(Tail(d))

\* Post.to_json: self.model_dump_json()
ModelDumpJson(p) == <<"{">> \o JsonMembers(ModelDump(p)) \o <<"}">>

(***************************************************************************)
(* json.loads, the decoder the round trip is read back with                *)
(***************************************************************************)
CharAt(txt, n) == IF n \in DOMAIN txt THEN txt[n] ELSE "EOF"

Unescape(c) == IF c = "n" THEN "\n" ELSE c

\* the string whose opening quote is before position n: [val, next]
RECURSIVE ScanString(_, _, _)
ScanString(txt, n, acc) ==
    IF n > Len(txt) THEN [val |-> acc, next |-> n]
    ELSE IF txt[n] = "\"" THEN [val |-> acc, next |-> n + 1]
    ELSE IF txt[n] = "\\"
         THEN ScanString(txt, n + 2, Append(acc, Unescape(CharAt(txt, n + 1))))
    ELSE ScanString(txt, n + 1, Append(acc, txt[n]))

\* the digits from position n on: [val, next]
RECURSIVE ScanDigits(_, _, _)
ScanDigits(txt, n, acc) ==
    IF IsDigitChar(CharAt(txt, n)) THEN ScanDigits(txt, n + 1, Append(acc, DigitOf(txt[n])))
    ELSE [val |-> acc, next |-> n]

RECURSIVE DigitsToNat(_, _)
DigitsToNat(ds, acc) == IF ds = <<>> THEN acc ELSE DigitsToNat(Tail(ds), 10 * acc + Head(ds))

\* the float's fraction digits: trailing zeros carry no value
RECURSIVE StripZeros(_)
StripZeros(ds) ==
    IF ds # <<>> /\ ds[Len(ds)] = 0 THEN StripZeros(SubSeq(ds, 1, Len(ds) - 1)) ELSE ds

\* the number at position n: an int without a fraction part, a float with one
ScanNumber(txt, n) ==
    LET neg == CharAt(txt, n) = "-"
        whole == ScanDigits(txt, IF neg THEN n + 1 ELSE n, <<>>)
        int == DigitsToNat(whole.val, 0)
    IN  IF CharAt(txt, whole.next) = "."
        THEN LET frac == ScanDigits(txt, whole.next + 1, <<>>)
             IN  [val |-> FloatValue(Float(neg, int, StripZeros(frac.val))),
                  next |-> frac.next]
        ELSE [val |-> IntValue(IF neg THEN -int ELSE int), next |-> whole.next]

ScanValue(txt, n) ==
    IF CharAt(txt, n) = "\""
    THEN LET str == ScanString(txt, n + 1, <<>>)
         IN  [val |-> StrValue(str.val), next |-> str.next]
    ELSE ScanNumber(txt, n)

\* the field a decoded key names ("?" for a key that is no field name)
KeyOf(chars) ==
    IF \E n \in DOMAIN PostFields : KeyChars(PostFields[n]) = chars
    THEN PostFields[CHOOSE n \in DOMAIN PostFields : KeyChars(PostFields[n]) = chars]
    ELSE "?"

\* the members from position n on, up to the closing brace
RECURSIVE ScanMembers(_, _, _)
ScanMembers(txt, n, acc) ==
    IF CharAt(txt, n) # "\"" THEN acc
    ELSE LET key == ScanString(txt, n + 1, <<>>)
             value == ScanValue(txt, key.next + 1)
             more == Append(acc, <<KeyOf(key.val), value.val>>)
         IN  IF CharAt(txt, key.next) # ":" THEN acc
             ELSE IF CharAt(txt, value.next) = ","
                  THEN ScanMembers(txt, value.next + 1, more)
             ELSE more

\* json.loads(text) of an object: the dict it decodes to
JsonLoads(txt) == IF CharAt(txt, 1) = "{" THEN ScanMembers(txt, 2, <<>>) ELSE <<>>

\* d1 == d2 on dicts: the same keys, each with the same value
DictEq(d1, d2) ==
    /\ {d1[n][1] : n \in DOMAIN d1} = {d2[n][1] : n \in DOMAIN d2}
    /\ \A n \in DOMAIN d1, m \in DOMAIN d2 : d1[n][1] = d2[m][1] => d1[n][2] = d2[m][2]

(***************************************************************************)
(* Operations on a Post instance                                           *)
(***************************************************************************)
\* p.to_dict()
ToDict ==
    /\ post # NoInstance
    /\ post' = post
    /\ postCall' = [op |-> "to_dict", pre |-> post, post |-> post', dict |-> ModelDump(post)]
    /\ lastOp' = "to_dict"
    /\ raised' = NoError
    /\ UNCHANGED <<postKw, statusVars, recordVars, configVars>>

\* p.to_json()
ToJson ==
    /\ post # NoInstance
    /\ post' = post
    /\ postCall' = [op |-> "to_json", pre |-> post, post |-> post',
                    json |-> ModelDumpJson(post)]
    /\ lastOp' = "to_json"
    /\ raised' = NoError
    /\ UNCHANGED <<postKw, statusVars, recordVars, configVars>>

\* the values a caller assigns to an int field and to a float field
AssignedInts == {-1, 7}
AssignedFloats == {Float(FALSE, 1, <<5>>), Float(FALSE, 0, <<5>>)}

\* BaseModel.__setattr__ with the default model_config: the attribute is set,
\* the model is not frozen and the value is not validated
SetAttr(obj, field, value) == [obj EXCEPT ![field] = value]

\* p.<field> = value
AssignPostField(field, value) ==
    /\ post # NoInstance
    /\ post' = SetAttr(post, field, value)
    /\ postCall' = [op |-> "setattr", pre |-> post, post |-> post', field |-> field]
    /\ lastOp' = "setattr"
    /\ raised' = NoError
    /\ UNCHANGED <<postKw, statusVars, recordVars, configVars>>

PostNext ==
    \/ \E kw \in PostKwargs : ConstructPost(kw)
    \/ ToDict
    \/ ToJson
    \/ \E value \in AssignedInts : AssignPostField("upvotes", value)
    \/ \E value \in AssignedFloats : AssignPostField("upvote_ratio", value)

SpecPost == Init /\ [][PostNext]_vars

(***************************************************************************)
(* Properties of Post, stated for SpecPost.                             *)
(***************************************************************************)
\* every argument of the last Post(...) call was passed
AllGiven(kw) == \A n \in DOMAIN PostFields : kw[PostFields[n]] # Omitted

\* 0.0 <= v <= 1.0, read off the decimal
InUnitInterval(v) ==
    \/ v.int = 0 /\ v.frac = <<>>
    \/ ~v.neg /\ v.int = 0
    \/ ~v.neg /\ v.int = 1 /\ v.frac = <<>>

\* C1: Post(...) with upvotes < 0 or with upvote_ratio outside [0.0, 1.0]
\* raises ValidationError and makes no instance; a Post that exists right
\* after construction has upvotes >= 0 and 0.0 <= upvote_ratio <= 1.0.
C1_InvalidPostRejected ==
    lastOp = "Post" =>
       /\ (\/ postKw.upvotes # Omitted /\ postKw.upvotes[1] < 0
           \/ postKw.upvote_ratio # Omitted /\ ~InUnitInterval(postKw.upvote_ratio[1]))
             => raised = ValidationError /\ post = NoInstance
       /\ post # NoInstance => post.upvotes >= 0 /\ InUnitInterval(post.upvote_ratio)

\* Post(...) was just called with upvotes = -1 and every other field valid,
\* and it raised
C1_Witness ==
    /\ lastOp = "Post" /\ raised = ValidationError /\ post = NoInstance
    /\ AllGiven(postKw)
    /\ postKw.upvotes = Arg(-1) /\ postKw.num_comments = Arg(20)
    /\ postKw.upvote_ratio = Arg(One)

\* C3: after construction every field of the Post still holds the value it
\* was constructed with, whatever was done to the instance (to_dict, to_json,
\* assignment to a field), so it never holds upvotes < 0 or an upvote_ratio
\* outside [0.0, 1.0].
C3_ImmutableAfterConstruction ==
    post # NoInstance =>
       /\ \A n \in DOMAIN PostFields : post[PostFields[n]] = postKw[PostFields[n]][1]
       /\ post.upvotes >= 0
       /\ InUnitInterval(post.upvote_ratio)

\* C4 as stated: whatever the other fields are, Post(...) with upvotes >= 0
\* and upvote_ratio in [0.0, 1.0] succeeds and holds the values given.
C4_OnlyUpvotesAndRatioChecked ==
    (/\ lastOp = "Post" /\ AllGiven(postKw)
     /\ postKw.upvotes[1] >= 0
     /\ InUnitInterval(postKw.upvote_ratio[1]))
       => /\ raised = NoError
          /\ post # NoInstance
          /\ \A n \in DOMAIN PostFields : post[PostFields[n]] = postKw[PostFields[n]][1]

\* C4 amended: Post validates upvotes, num_comments and upvote_ratio, and
\* nothing else: whatever the other fields are (an empty post_id included),
\* Post(...) with upvotes >= 0, num_comments >= 0 and upvote_ratio in
\* [0.0, 1.0] succeeds and the instance holds the values exactly as given.
C4_OnlyNumericFieldsChecked ==
    (/\ lastOp = "Post" /\ AllGiven(postKw)
     /\ postKw.upvotes[1] >= 0
     /\ postKw.num_comments[1] >= 0
     /\ InUnitInterval(postKw.upvote_ratio[1]))
       => /\ raised = NoError
          /\ post # NoInstance
          /\ \A n \in DOMAIN PostFields : post[PostFields[n]] = postKw[PostFields[n]][1]

\* a Post with an empty post_id was just constructed
C4_Witness ==
    /\ lastOp = "Post" /\ raised = NoError /\ post # NoInstance
    /\ post.post_id = <<>> /\ post.num_comments = 0 /\ post.upvotes = 0

\* C9: decoding the text p.to_json() returned gives a dict equal to
\* p.to_dict(), and neither to_dict nor to_json changes a field of p.
C9_JsonRoundTrip ==
    postCall # NoInstance =>
       /\ postCall.op = "to_json" =>
             /\ DictEq(JsonLoads(postCall.json), ModelDump(postCall.pre))
             /\ Len(JsonLoads(postCall.json)) = Len(PostFields)
             /\ postCall.post = postCall.pre
       /\ postCall.op = "to_dict" =>
             /\ postCall.post = postCall.pre
             /\ \A n \in DOMAIN PostFields : postCall.dict[n][1] = PostFields[n]

\* to_json was just called on a valid Post whose strings hold a quote, a
\* backslash and a newline and whose upvote_ratio is 0.95
C9_Witness ==
    /\ postCall # NoInstance
    /\ postCall.op = "to_json"
    /\ post.post_id = <<"a", "\"">> /\ post.title = <<"\\", "\n">>
    /\ post.upvotes = 150 /\ post.num_comments = 20
    /\ post.upvote_ratio = Float(FALSE, 0, <<9, 5>>)

(***************************************************************************)
(* NotificationRecord                                                      *)
(***************************************************************************)
\* notification_type: default="trending"
NotificationTypeDefault == <<"t", "r", "e", "n", "d", "i", "n", "g">>

\* the keyword arguments NotificationRecord(...) is called with
RecordKwargs ==
    { [post_id |-> Arg(<<"a">>), subreddit |-> Arg(<<"p">>),
       notified_at |-> Arg(<<"2", "0", "2", "4">>), notification_type |-> Omitted],
      [post_id |-> Arg(<<"a">>), subreddit |-> Arg(<<"p">>),
       notified_at |-> Arg(<<"2", "0", "2", "4">>),
       notification_type |-> Arg(<<"h", "i", "g", "h">>)],
      [post_id |-> Omitted, subreddit |-> Arg(<<"p">>),
       notified_at |-> Arg(<<"2", "0", "2", "4">>), notification_type |-> Omitted] }

\* the required fields of NotificationRecord(**kw) that are missing
RecordErrors(kw) ==
    {f \in {"post_id", "subreddit", "notified_at"} : MissingRequired(kw[f])}

\* the instance NotificationRecord(**kw) makes
RecordNew(kw) ==
    [class |-> "NotificationRecord", post_id |-> kw.post_id[1],
     subreddit |-> kw.subreddit[1], notified_at |-> kw.notified_at[1],
     notification_type |-> FieldValue(kw.notification_type, NotificationTypeDefault)]

\* r = NotificationRecord(**kw)
ConstructNotificationRecord(kw) ==
    /\ record = NoInstance
    /\ recordKw' = kw
    /\ IF RecordErrors(kw) # {}
       THEN raised' = ValidationError /\ record' = record
       ELSE raised' = NoError /\ record' = RecordNew(kw)
    /\ lastOp' = "NotificationRecord"
    /\ UNCHANGED <<statusVars, postVars, configVars>>

(***************************************************************************)
(* RedditConfig, MonitoringConfig, NotificationConfig and Config           *)
(***************************************************************************)
\* the keyword arguments RedditConfig(...) is called with
RedditKwargs ==
    { [client_id |-> Arg(<<"i">>), client_secret |-> Arg(<<"s">>),
       user_agent |-> Arg(<<"a">>)],
      [client_id |-> Arg(<<"i">>), client_secret |-> Omitted,
       user_agent |-> Arg(<<"a">>)] }

\* the required fields of RedditConfig(**kw) that are missing
RedditErrors(kw) ==
    {f \in {"client_id", "client_secret", "user_agent"} : MissingRequired(kw[f])}

RedditNew(kw) ==
    [class |-> "RedditConfig", client_id |-> kw.client_id[1],
     client_secret |-> kw.client_secret[1], user_agent |-> kw.user_agent[1]]

\* the keyword arguments MonitoringConfig(...) is called with
MonitoringKwargs ==
    [subreddits : {Arg(<<>>), Arg(<< <<"p">> >>)},
     check_interval_minutes : {Arg(-5), Arg(0), Arg(15)},
     min_upvotes : {Arg(-1), Arg(0), Arg(100)},
     min_upvote_ratio : {Arg(Float(TRUE, 0, <<5>>)), Arg(Float(FALSE, 0, <<9>>)),
                         Arg(One), Arg(Float(FALSE, 1, <<5>>))}]
    \cup
    [subreddits : {Omitted}, check_interval_minutes : {Arg(15)},
     min_upvotes : {Arg(100)}, min_upvote_ratio : {Arg(One)}]

\* the fields of MonitoringConfig(**kw) that fail validation
MonitoringErrors(kw) ==
    {f \in {"subreddits"} : MissingRequired(kw.subreddits)}
        \cup {f \in {"check_interval_minutes"} :
                MissingRequired(kw.check_interval_minutes)
                   \/ ViolatesGt(kw.check_interval_minutes, 0)}
        \cup {f \in {"min_upvotes"} :
                MissingRequired(kw.min_upvotes) \/ ViolatesGe(kw.min_upvotes, 0)}
        \cup {f \in {"min_upvote_ratio"} :
                MissingRequired(kw.min_upvote_ratio)
                   \/ ViolatesRange(kw.min_upvote_ratio, Zero, One)}

MonitoringNew(kw) ==
    [class |-> "MonitoringConfig", subreddits |-> kw.subreddits[1],
     check_interval_minutes |-> kw.check_interval_minutes[1],
     min_upvotes |-> kw.min_upvotes[1], min_upvote_ratio |-> kw.min_upvote_ratio[1]]

\* a bug: notifications are off unless enabled is passed
EnabledDefaultOff == FALSE
\* enabled: default=True
EnabledDefault == TRUE

\* the keyword arguments NotificationConfig(...) is called with
NotificationKwargs ==
    { [arcade_api_key |-> Arg(<<"k">>), enabled |-> Omitted],
      [arcade_api_key |-> Arg(<<"k">>), enabled |-> Arg(FALSE)],
      [arcade_api_key |-> Omitted, enabled |-> Arg(TRUE)] }

\* the required field of NotificationConfig(**kw) that is missing
NotificationErrors(kw) == {f \in {"arcade_api_key"} : MissingRequired(kw[f])}

NotificationNew(kw) ==
    [class |-> "NotificationConfig", arcade_api_key |-> kw.arcade_api_key[1],
     enabled |-> FieldValue(kw.enabled, EnabledDefault)]

\* the Config instance: its three attributes are the objects held in reddit,
\* monitoring and notifConfig
ConfigNew ==
    [class |-> "Config", reddit |-> "reddit", monitoring |-> "monitoring",
     notification |-> "notifConfig"]

\* r = RedditConfig(**kw)
ConstructRedditConfig(kw) ==
    /\ reddit = NoInstance
    /\ configKw' = [configKw EXCEPT !.reddit = kw]
    /\ IF RedditErrors(kw) # {}
       THEN raised' = ValidationError /\ reddit' = reddit
       ELSE raised' = NoError /\ reddit' = RedditNew(kw)
    /\ lastOp' = "RedditConfig"
    /\ UNCHANGED <<monitoring, notifConfig, config, statusVars, recordVars, postVars>>

\* m = MonitoringConfig(**kw)
ConstructMonitoringConfig(kw) ==
    /\ monitoring = NoInstance
    /\ configKw' = [configKw EXCEPT !.monitoring = kw]
    /\ IF MonitoringErrors(kw) # {}
       THEN raised' = ValidationError /\ monitoring' = monitoring
       ELSE raised' = NoError /\ monitoring' = MonitoringNew(kw)
    /\ lastOp' = "MonitoringConfig"
    /\ UNCHANGED <<reddit, notifConfig, config, statusVars, recordVars, postVars>>

\* n = NotificationConfig(**kw)
ConstructNotificationConfig(kw) ==
    /\ notifConfig = NoInstance
    /\ configKw' = [configKw EXCEPT !.notification = kw]
    /\ IF NotificationErrors(kw) # {}
       THEN raised' = ValidationError /\ notifConfig' = notifConfig
       ELSE raised' = NoError /\ notifConfig' = NotificationNew(kw)
    /\ lastOp' = "NotificationConfig"
    /\ UNCHANGED <<reddit, monitoring, config, statusVars, recordVars, postVars>>

\* Config(reddit=kwR, monitoring=kwM, notification=kwN), the three parts given
\* as data: each part is validated into its sub-config, and the call raises,
\* making nothing, when one of them fails
ConstructConfigFromData(kwR, kwM, kwN) ==
    /\ config = NoInstance
    /\ reddit = NoInstance /\ monitoring = NoInstance /\ notifConfig = NoInstance
    /\ configKw' = [reddit |-> kwR, monitoring |-> kwM, notification |-> kwN]
    /\ IF RedditErrors(kwR) \cup MonitoringErrors(kwM) \cup NotificationErrors(kwN) # {}
       THEN /\ raised' = ValidationError
            /\ UNCHANGED <<reddit, monitoring, notifConfig, config>>
       ELSE /\ raised' = NoError
            /\ reddit' = RedditNew(kwR)
            /\ monitoring' = MonitoringNew(kwM)
            /\ notifConfig' = NotificationNew(kwN)
            /\ config' = ConfigNew
    /\ lastOp' = "Config"
    /\ UNCHANGED <<statusVars, recordVars, postVars>>

\* Config(reddit=r, monitoring=m, notification=n), the three parts given as
\* instances: an instance of the field's class is taken as it is
ConstructConfigFromInstances ==
    /\ config = NoInstance
    /\ reddit # NoInstance /\ monitoring # NoInstance /\ notifConfig # NoInstance
    /\ config' = ConfigNew
    /\ raised' = NoError
    /\ lastOp' = "Config"
    /\ UNCHANGED <<reddit, monitoring, notifConfig, configKw,
                   statusVars, recordVars, postVars>>

\* m.<field> = value, or cfg.monitoring.<field> = value
AssignMonitoringField(field, value) ==
    /\ monitoring # NoInstance
    /\ monitoring' = SetAttr(monitoring, field, value)
    /\ raised' = NoError
    /\ lastOp' = "setattr"
    /\ UNCHANGED <<reddit, notifConfig, config, configKw,
                   statusVars, recordVars, postVars>>

ConfigNext ==
    \/ \E kw \in RedditKwargs : ConstructRedditConfig(kw)
    \/ \E kw \in MonitoringKwargs : ConstructMonitoringConfig(kw)
    \/ \E kw \in NotificationKwargs : ConstructNotificationConfig(kw)
    \/ \E kwR \in RedditKwargs, kwM \in MonitoringKwargs, kwN \in NotificationKwargs :
          ConstructConfigFromData(kwR, kwM, kwN)
    \/ ConstructConfigFromInstances
    \/ \E value \in AssignedInts : AssignMonitoringField("min_upvotes", value)
    \/ \E value \in AssignedFloats : AssignMonitoringField("min_upvote_ratio", value)

SpecConfig == Init /\ [][ConfigNext]_vars

DefaultsNext ==
    \/ \E i \in StatusIds, kw \in ServiceStatusKwargs : ConstructServiceStatus(i, kw)
    \/ \E kw \in RecordKwargs : ConstructNotificationRecord(kw)
    \/ \E kw \in NotificationKwargs : ConstructNotificationConfig(kw)

SpecDefaults == Init /\ [][DefaultsNext]_vars

(***************************************************************************)
(* Properties of the configuration models, stated for SpecConfig.       *)
(***************************************************************************)
\* one of the three constraints of MonitoringConfig is violated by values
\* interval, upvotes and ratio
ViolatesMonitoring(interval, upvotes, ratio) ==
    interval <= 0 \/ upvotes < 0 \/ ~InUnitInterval(ratio)

SomeOmitted(kw) == \E f \in DOMAIN kw : kw[f] = Omitted

\* the sub-config built from kw fails: a required argument is missing or,
\* for the monitoring part, one of its three constraints is violated
MonitoringFails(kw) ==
    \/ SomeOmitted(kw)
    \/ ViolatesMonitoring(kw.check_interval_minutes[1], kw.min_upvotes[1],
                          kw.min_upvote_ratio[1])
RedditFails(kw) == SomeOmitted(kw)
NotificationFails(kw) == kw.arcade_api_key = Omitted

\* the part of C5 about the constructors: MonitoringConfig(...) with every
\* argument passed raises exactly when one of the three constraints is
\* violated (an empty subreddits list does not make it raise), and Config(...)
\* raises, making no Config, when one of its three parts fails.
C5_ConstructorsValidate ==
    /\ (lastOp = "MonitoringConfig" /\ ~SomeOmitted(configKw.monitoring))
          => (raised = ValidationError
                <=> ViolatesMonitoring(configKw.monitoring.check_interval_minutes[1],
                                       configKw.monitoring.min_upvotes[1],
                                       configKw.monitoring.min_upvote_ratio[1]))
    /\ (/\ lastOp = "Config"
        /\ \/ RedditFails(configKw.reddit)
           \/ MonitoringFails(configKw.monitoring)
           \/ NotificationFails(configKw.notification))
          => raised = ValidationError /\ config = NoInstance

\* the part of C5 about the state: no Config exists whose monitoring part
\* violates one of the three constraints.
C5_NoConfigWithInvalidMonitoring ==
    config # NoInstance =>
       ~ViolatesMonitoring(monitoring.check_interval_minutes, monitoring.min_upvotes,
                           monitoring.min_upvote_ratio)

\* C5: MonitoringConfig(...) raises exactly when check_interval_minutes <= 0,
\* min_upvotes < 0 or min_upvote_ratio is outside [0.0, 1.0]; Config(...)
\* raises when one of its three sub-configs fails; so no Config exists whose
\* monitoring part violates one of the three constraints.
C5_ConfigValidated == C5_ConstructorsValidate /\ C5_NoConfigWithInvalidMonitoring

(***************************************************************************)
(* Properties of the defaults, stated for SpecDefaults.                 *)
(***************************************************************************)
\* C8: ServiceStatus() starts with is_running false, both counters 0, both
\* lists empty and the three timestamps unset; NotificationRecord(...) without
\* notification_type has notification_type "trending"; NotificationConfig(...)
\* without enabled has enabled true.
C8_Defaults ==
    /\ \A i \in StatusIds :
          (Live(i) /\ \A f \in StatusFields : statusKw[i][f] = Omitted) =>
             LET s == View(status, heap)[i] IN
             /\ s.is_running = FALSE
             /\ s.total_posts_checked = 0 /\ s.total_notifications_sent = 0
             /\ s.monitored_subreddits = <<>> /\ s.errors = <<>>
             /\ s.last_check_at = NoneValue /\ s.next_check_at = NoneValue
             /\ s.started_at = NoneValue
    /\ (record # NoInstance /\ recordKw.notification_type = Omitted)
          => record.notification_type = <<"t", "r", "e", "n", "d", "i", "n", "g">>
    /\ (notifConfig # NoInstance /\ configKw.notification.enabled = Omitted)
          => notifConfig.enabled = TRUE

\* a ServiceStatus built with no arguments, a NotificationRecord built
\* without notification_type and a NotificationConfig built without enabled
\* all exist
C8_Witness ==
    /\ \E i \in StatusIds : Live(i) /\ \A f \in StatusFields : statusKw[i][f] = Omitted
    /\ record # NoInstance /\ recordKw.notification_type = Omitted
    /\ notifConfig # NoInstance /\ configKw.notification.enabled = Omitted

====
